---------------------------- MODULE Spec2Model ----------------------------
(***************************************************************************)
(* FlowCal, the VibeCalendarScheduler component (src/unnamed/part_000):    *)
(* the event store, the draft form, conflict detection, availability       *)
(* search, recurrence expansion and the reminder interval.                 *)
(*                                                                         *)
(* Representation.  A date string 'YYYY-MM-DD' is the triple <<y, m, d>>,  *)
(* a time string 'HH:mm' is the pair <<h, mi>>, and the empty string of    *)
(* either input is <<>>.  An instant (a dayjs object) is its number of     *)
(* minutes since EpochYear-01-01T00:00Z; Date.now() and dayjs() read the   *)
(* variable clock, in milliseconds since the same epoch.  Time zones have  *)
(* the fixed offsets of Offset (zones without daylight saving).  The free  *)
(* text fields type, location, description and attendees are carried by    *)
(* the handlers exactly as title is and are left out of the records.       *)
(***************************************************************************)
EXTENDS Integers, Sequences, FiniteSets, TLC

VARIABLES
    events,             \* useState(initialEvents): the event store, in order
    newEvent,           \* the draft bound to the form
    conflicts,          \* the conflict list shown in the form
    keptAvailabilities, \* the available times, while the draft has no date
    showForm,
    editEventId,        \* NoId stands for null
    showDeleteConfirm,
    eventToDelete,      \* a sequence: <<>> for null, <<event>> otherwise
    reminders,          \* the notification list
    clock,              \* wall clock, ms since the epoch
    timers,             \* the active interval timers, each named by the
                        \* clock value at which it was set or last fired
    mounted,            \* FALSE after unmount
    addedCalls,         \* arguments of the onEventAdd calls so far, in order
    lastOp,             \* the handler that ran last; "ui" for the handlers
                        \* that change neither store nor notifications
    fnArgs,             \* arguments of a direct application of a function
    fnRet               \* its result

vars == <<events, newEvent, conflicts, keptAvailabilities, showForm, editEventId,
          showDeleteConfirm, eventToDelete, reminders, clock, timers,
          mounted, addedCalls, lastOp, fnArgs, fnRet>>

appVars == <<events, newEvent, conflicts, keptAvailabilities, showForm,
             editEventId, showDeleteConfirm, eventToDelete, reminders, clock,
             timers, mounted, addedCalls, lastOp>>

-----------------------------------------------------------------------------
(* Bounds of the model *)

MaxList == 2
MaxEvents == 1
MaxClockAdvance == 5
MaxReminderSteps == 5
MaxQuarterMinutes == 84
MaxNotifySteps == 2
MaxAdds == 1
MaxTwinSteps == 3
MaxTwinEvents == 2
MaxSubmitEvents == 2
MaxDismissSteps == 8
MaxRecurEvents == 7
MaxTarget == 1

(* Program constants *)

NoId == -1
WorkStartHour == 9
WorkEndHour == 17
SlotStep == 30
MaxSlots == 6
DefaultBuffer == 15
DefaultDuration == 60
Occurrences == 5
IntervalMs == 30000

MinutesPerDay == 24 * 60
MsPerMinute == 60 * 1000
Epoch == <<2024, 1, 1>>
EpochYear == Epoch[1]

-----------------------------------------------------------------------------
(* dayjs: calendar arithmetic, time zones, parsing and formatting *)

Zones == {"UTC", "Asia/Kolkata"}

Offset(timezone) == IF timezone = "Asia/Kolkata" THEN 330 ELSE 0

IsLeap(y) == (y % 4 = 0 /\ y % 100 # 0) \/ y % 400 = 0

DaysInMonth(y, m) ==
    IF m = 2 THEN (IF IsLeap(y) THEN 29 ELSE 28)
    ELSE IF m \in {4, 6, 9, 11} THEN 30 ELSE 31

DaysInYear(y) == IF IsLeap(y) THEN 366 ELSE 365

\* leap years in EpochYear .. y - 1
LeapsBefore(y) ==
    LET n(k) == (k - 1) \div 4 - (k - 1) \div 100 + (k - 1) \div 400
    IN  n(y) - n(EpochYear)

DaysBeforeYear(y) == 365 * (y - EpochYear) + LeapsBefore(y)

DaysBeforeMonth(y, m) ==
    <<0, 31, 59, 90, 120, 151, 181, 212, 243, 273, 304, 334>>[m]
    + (IF m > 2 /\ IsLeap(y) THEN 1 ELSE 0)

\* parse of 'YYYY-MM-DD': days since EpochYear-01-01
DayNumber(date) ==
    DaysBeforeYear(date[1]) + DaysBeforeMonth(date[1], date[2]) + date[3] - 1

RECURSIVE DateInYear(_, _, _)
DateInYear(y, m, n) ==
    IF n >= DaysInMonth(y, m) THEN DateInYear(y, m + 1, n - DaysInMonth(y, m))
    ELSE <<y, m, n + 1>>

RECURSIVE DateFrom(_, _)
DateFrom(y, n) ==
    IF n >= DaysInYear(y) THEN DateFrom(y + 1, n - DaysInYear(y))
    ELSE DateInYear(y, 1, n)

\* format('YYYY-MM-DD') of a day number
DateOfDayNumber(n) == DateFrom(EpochYear, n)

\* parse of 'HH:mm': minutes since midnight
MinuteOfDay(time) == time[1] * 60 + time[2]

\* dayjs.tz(`${date}T${time}`, timezone): the instant of a wall-clock time
dayjs_tz(date, time, timezone) ==
    DayNumber(date) * MinutesPerDay + MinuteOfDay(time) - Offset(timezone)

\* instant.format('HH:mm') in the zone the instant was built in
formatHHmm(instant, timezone) ==
    LET local == (instant + Offset(timezone)) % MinutesPerDay
    IN  <<local \div 60, local % 60>>

\* instant.format('YYYY-MM-DD') in the zone the instant was built in
formatDate(instant, timezone) ==
    DateOfDayNumber((instant + Offset(timezone)) \div MinutesPerDay)

\* instant.format(): date, time and offset of the zone ('YYYY-MM-DDTHH:mm:ssZ')
formatISO(instant, timezone) ==
    <<formatDate(instant, timezone), formatHHmm(instant, timezone),
      Offset(timezone)>>

-----------------------------------------------------------------------------
(* Conflict detection *)

\* evt.buffer || 15
bufferOrDefault(evt) == IF evt.buffer = 0 THEN DefaultBuffer ELSE evt.buffer

\* the scan stopping at the first overlapping event
checkConflicts_firstOnly(testEvent, list) ==
    LET start == dayjs_tz(testEvent.date, testEvent.time, testEvent.timezone)
        end   == start + testEvent.duration + testEvent.buffer
        eStart(evt) == dayjs_tz(evt.date, evt.time, evt.timezone)
        eEnd(evt)   == eStart(evt) + evt.duration + bufferOrDefault(evt)
        hit(evt) == /\ evt.id # testEvent.id
                    /\ start < eEnd(evt)
                    /\ end > eStart(evt)
        hits == SelectSeq(list, hit)
    IN  IF hits = <<>> THEN <<>> ELSE <<[conflictWith |-> hits[1].title]>>

checkConflicts(testEvent, list) ==
    LET start == dayjs_tz(testEvent.date, testEvent.time, testEvent.timezone)
        end   == start + testEvent.duration + testEvent.buffer
        eStart(evt) == dayjs_tz(evt.date, evt.time, evt.timezone)
        eEnd(evt)   == eStart(evt) + evt.duration + bufferOrDefault(evt)
        hit(evt) == /\ evt.id # testEvent.id
                    /\ start < eEnd(evt)
                    /\ end > eStart(evt)
        hits == SelectSeq(list, hit)
    IN  [i \in 1..Len(hits) |-> [conflictWith |-> hits[i].title]]

-----------------------------------------------------------------------------
(* Availability search *)

\* the window closing an hour late
getWorkWindow_lateEnd(date, timezone) ==
    [start |-> dayjs_tz(date, <<WorkStartHour, 0>>, timezone),
     end   |-> dayjs_tz(date, <<WorkEndHour + 1, 0>>, timezone)]

getWorkWindow(date, timezone) ==
    [start |-> dayjs_tz(date, <<WorkStartHour, 0>>, timezone),
     end   |-> dayjs_tz(date, <<WorkEndHour, 0>>, timezone)]

\* the candidate built without the draft's buffer
slotTest_noBuffer(date, cursor, draft) ==
    [id |-> NoId, title |-> "", date |-> date,
     time |-> formatHHmm(cursor, draft.timezone),
     duration |-> draft.duration, buffer |-> 0,
     timezone |-> draft.timezone]

\* the candidate built at each grid time (it has no id)
slotTest(date, cursor, draft) ==
    [id |-> NoId, title |-> "", date |-> date,
     time |-> formatHHmm(cursor, draft.timezone),
     duration |-> draft.duration, buffer |-> draft.buffer,
     timezone |-> draft.timezone]

RECURSIVE slotLoop(_, _, _, _, _, _)
slotLoop(date, draft, list, end, cursor, slots) ==
    IF cursor + draft.duration <= end
    THEN LET free  == checkConflicts(slotTest(date, cursor, draft), list) = <<>>
             next  == IF free
                      THEN Append(slots, formatHHmm(cursor, draft.timezone))
                      ELSE slots
         IN  IF Len(next) >= MaxSlots THEN next
             ELSE slotLoop(date, draft, list, end, cursor + SlotStep, next)
    ELSE slots

\* the slots tested against a store without events
generateAvailabilities_noStore(date, draft, list) ==
    LET w == getWorkWindow(date, draft.timezone)
    IN  slotLoop(date, draft, <<>>, w.end, w.start, <<>>)

generateAvailabilities(date, draft, list) ==
    LET w == getWorkWindow(date, draft.timezone)
    IN  slotLoop(date, draft, list, w.end, w.start, <<>>)

-----------------------------------------------------------------------------
(* Time comparisons against the wall clock (ms against whole minutes) *)

\* dayjs(ms).isAfter(instant)
isAfterMs(ms, instant) ==
    \/ ms \div MsPerMinute > instant
    \/ ms \div MsPerMinute = instant /\ ms % MsPerMinute > 0

\* isBefore taken as "not after"
isBeforeMs_inclusive(ms, instant) ==
    \/ ms \div MsPerMinute < instant
    \/ ms \div MsPerMinute = instant /\ ms % MsPerMinute = 0

\* dayjs(ms).isBefore(instant)
isBeforeMs(ms, instant) == ms \div MsPerMinute < instant

-----------------------------------------------------------------------------
(* The draft and the effects that follow every render *)

LocalZone == "UTC"

\* the draft of useState: today, the current minute, the guessed zone
initialDraft(ms) ==
    [id |-> NoId, title |-> "",
     date |-> formatDate(ms \div MsPerMinute, LocalZone),
     time |-> formatHHmm(ms \div MsPerMinute, LocalZone),
     duration |-> DefaultDuration, timezone |-> LocalZone,
     buffer |-> DefaultBuffer, repeat |-> "none", reminder |-> 0,
     status |-> "undefined"]

\* useEffect on [newEvent.date, events, generateAvailabilities] runs after
\* every render and sets the list whenever the draft has a date, so the list
\* shown is then a function of the draft and the store; a render whose draft
\* has no date keeps the list of the render before it
shownAvailabilities(kept, draft, list) ==
    IF draft.date # <<>> THEN generateAvailabilities(draft.date, draft, list)
    ELSE kept

availabilities == shownAvailabilities(keptAvailabilities, newEvent, events)

\* the list a render keeps: prevShown is the list shown by the render before
keptAfterRender(prevShown, draft) ==
    IF draft.date # <<>> THEN <<>> ELSE prevShown

-----------------------------------------------------------------------------
(* handleAdd, in its parts *)

\* the validation without the title test
requiredFilled_noTitle(draft) == draft.date # <<>> /\ draft.time # <<>>

\* if (!newEvent.title || !newEvent.date || !newEvent.time) return
requiredFilled(draft) ==
    draft.title # "" /\ draft.date # <<>> /\ draft.time # <<>>

exceptId(list, id) ==
    LET keep(e) == e.id # id IN SelectSeq(list, keep)

\* checkConflicts(newEvent, events.filter(e => e.id !== editEventId))
submitErrs(draft, list, editId) == checkConflicts(draft, exceptId(list, editId))

\* if (editEventId): null and 0 are falsy
isEditMode(editId) == editId # NoId /\ editId # 0

\* the map without its test of the id
replaceById_everyEntry(list, draft, editId) ==
    [i \in 1..Len(list) |-> [draft EXCEPT !.id = editId]]

\* prev.map(e => e.id === editEventId ? { ...newEvent, id: editEventId } : e)
replaceById(list, draft, editId) ==
    [i \in 1..Len(list) |->
        IF list[i].id = editId THEN [draft EXCEPT !.id = editId] ELSE list[i]]

\* { ...newEvent, id: Date.now(), status: 'confirmed' }
toAdd(draft, nowMs) == [draft EXCEPT !.id = nowMs, !.status = "confirmed"]

\* base.add(i, 'month'): the day of the month is clamped to the target month
addMonths(date, i) ==
    LET k == (date[2] - 1) + i
        y == date[1] + k \div 12
        m == (k % 12) + 1
        dim == DaysInMonth(y, m)
    IN  <<y, m, IF date[3] > dim THEN dim ELSE date[3]>>

\* the weekly branch never taken
nextDate_noWeekly(draft, i) ==
    LET base == dayjs_tz(draft.date, draft.time, draft.timezone)
    IN  IF draft.repeat = "daily"
        THEN <<formatDate(base + i * MinutesPerDay, draft.timezone)>>
        ELSE IF draft.repeat = "monthly"
        THEN <<addMonths(formatDate(base, draft.timezone), i)>>
        ELSE <<>>

\* a week counted as six days
nextDate_shortWeek(draft, i) ==
    LET base == dayjs_tz(draft.date, draft.time, draft.timezone)
    IN  IF draft.repeat = "daily"
        THEN <<formatDate(base + i * MinutesPerDay, draft.timezone)>>
        ELSE IF draft.repeat = "weekly"
        THEN <<formatDate(base + i * 6 * MinutesPerDay, draft.timezone)>>
        ELSE IF draft.repeat = "monthly"
        THEN <<addMonths(formatDate(base, draft.timezone), i)>>
        ELSE <<>>

\* nextDate.format('YYYY-MM-DD') for occurrence i; <<>> when nextDate is unset
nextDate(draft, i) ==
    LET base == dayjs_tz(draft.date, draft.time, draft.timezone)
    IN  IF draft.repeat = "daily"
        THEN <<formatDate(base + i * MinutesPerDay, draft.timezone)>>
        ELSE IF draft.repeat = "weekly"
        THEN <<formatDate(base + i * 7 * MinutesPerDay, draft.timezone)>>
        ELSE IF draft.repeat = "monthly"
        THEN <<addMonths(formatDate(base, draft.timezone), i)>>
        ELSE <<>>

RECURSIVE occurrencesFrom(_, _, _)
occurrencesFrom(draft, nowMs, i) ==
    IF i > Occurrences THEN <<>>
    ELSE LET nd == nextDate(draft, i)
             occ == IF nd = <<>> THEN <<>>
                    ELSE <<[toAdd(draft, nowMs) EXCEPT !.id = nowMs + i,
                                                       !.date = nd[1]]>>
         IN  occ \o occurrencesFrom(draft, nowMs, i + 1)

\* newEvents: the base, then the occurrences when repeat is not 'none'
newEvents(draft, nowMs) ==
    <<toAdd(draft, nowMs)>> \o
    (IF draft.repeat # "none" THEN occurrencesFrom(draft, nowMs, 1) ELSE <<>>)

\* an edit that gives the replaced event a new id
committedStore_freshId(list, draft, editId, nowMs) ==
    IF isEditMode(editId)
    THEN [i \in 1..Len(list) |->
            IF list[i].id = editId THEN [draft EXCEPT !.id = nowMs]
            ELSE list[i]]
    ELSE list \o newEvents(draft, nowMs)

\* the store after a submit that passed validation and conflict detection
committedStore(list, draft, editId, nowMs) ==
    IF isEditMode(editId) THEN replaceById(list, draft, editId)
    ELSE list \o newEvents(draft, nowMs)

\* a submit that does not return on a conflict
submitOutcome_noConflictReturn(draft, list, editId) ==
    IF ~requiredFilled(draft) THEN "invalid" ELSE "commit"

\* a submit that checks every event of the series against the store
submitOutcome_checksSeries(draft, list, editId) ==
    IF ~requiredFilled(draft) THEN "invalid"
    ELSE IF \E k \in 1..Len(newEvents(draft, 0)) :
               submitErrs(newEvents(draft, 0)[k], list, editId) # <<>>
         THEN "conflict"
    ELSE "commit"

\* what handleAdd does: "invalid", "conflict" or "commit"
submitOutcome(draft, list, editId) ==
    IF ~requiredFilled(draft) THEN "invalid"
    ELSE IF submitErrs(draft, list, editId) # <<>> THEN "conflict"
    ELSE "commit"

\* setNewEvent(prev => ({ ...prev, title: '', attendees: [] }))
clearedDraft(draft) == [draft EXCEPT !.title = ""]

-----------------------------------------------------------------------------
(* Initial states *)

Date1 == <<2024, 1, 1>>
Date2 == <<2024, 1, 2>>

Seed1 ==
    [id |-> 1, title |-> "S1", date |-> Date1, time |-> <<10, 0>>,
     duration |-> 60, timezone |-> "UTC", buffer |-> 15, repeat |-> "none",
     reminder |-> 10, status |-> "confirmed"]

Seed2 ==
    [id |-> 2, title |-> "S2", date |-> Date1, time |-> <<12, 0>>,
     duration |-> 60, timezone |-> "UTC", buffer |-> 0, repeat |-> "none",
     reminder |-> 0, status |-> "pending"]

\* the events prop: stores with pairwise distinct ids
InitialStores == {<<>>, <<Seed1>>, <<Seed1, Seed2>>}

\* 2024-01-01T09:40:00.000Z
ClockStart == (9 * 60 + 40) * MsPerMinute

NoCall == [fn |-> "none"]

InitApp ==
    /\ events \in InitialStores
    /\ clock = ClockStart
    /\ newEvent = initialDraft(clock)
    /\ conflicts = <<>>
    /\ keptAvailabilities = keptAfterRender(<<>>, newEvent)
    /\ showForm = FALSE
    /\ editEventId = NoId
    /\ showDeleteConfirm = FALSE
    /\ eventToDelete = <<>>
    /\ reminders = <<>>
    /\ timers = {clock}
    /\ mounted = TRUE
    /\ addedCalls = <<>>
    /\ lastOp = "init"

Init ==
    /\ InitApp
    /\ fnArgs = NoCall
    /\ fnRet = NoCall

-----------------------------------------------------------------------------
(* Handlers *)

\* a cleanup that forgets its interval
clearInterval_leak(active) == active

\* return () => clearInterval(interval): the cleanup of the reminder effect
\* clears the interval that effect run set
clearInterval(active) == {}

\* const interval = setInterval(..., 30000)
setInterval(active, nowMs) == active \cup {nowMs}

\* the render that follows a handler: the availabilities effect, and the
\* reminder effect, which clears and sets the interval again whenever the
\* store or the notification list is a new array
rendered(storeChanged) ==
    /\ keptAvailabilities' =
          IF newEvent'.date # <<>> THEN <<>> ELSE availabilities
    /\ timers' = IF storeChanged
                 THEN setInterval(clearInterval(timers), clock')
                 ELSE timers

\* the New Event button
openForm ==
    /\ mounted
    /\ showForm' = TRUE
    /\ lastOp' = "ui"
    /\ UNCHANGED <<events, newEvent, conflicts, editEventId, showDeleteConfirm,
                   eventToDelete, reminders, clock, mounted, addedCalls>>
    /\ rendered(FALSE)

\* the X button of the form
closeForm ==
    /\ mounted /\ showForm
    /\ showForm' = FALSE
    /\ editEventId' = NoId
    /\ lastOp' = "ui"
    /\ UNCHANGED <<events, newEvent, conflicts, showDeleteConfirm,
                   eventToDelete, reminders, clock, mounted, addedCalls>>
    /\ rendered(FALSE)

\* the Cancel button of the form
cancelForm ==
    /\ mounted /\ showForm
    /\ showForm' = FALSE
    /\ lastOp' = "ui"
    /\ UNCHANGED <<events, newEvent, conflicts, editEventId, showDeleteConfirm,
                   eventToDelete, reminders, clock, mounted, addedCalls>>
    /\ rendered(FALSE)

\* an onChange of one form field, or a click on an offered time
setField(draft) ==
    /\ mounted /\ showForm
    /\ newEvent' = draft
    /\ lastOp' = "ui"
    /\ UNCHANGED <<events, conflicts, showForm, editEventId, showDeleteConfirm,
                   eventToDelete, reminders, clock, mounted, addedCalls>>
    /\ rendered(FALSE)

setTitle(v) == setField([newEvent EXCEPT !.title = v])
setDate(v) == setField([newEvent EXCEPT !.date = v])
setTime(v) == setField([newEvent EXCEPT !.time = v])
setDuration(v) == setField([newEvent EXCEPT !.duration = v])
setTimezone(v) == setField([newEvent EXCEPT !.timezone = v])
setRepeat(v) == setField([newEvent EXCEPT !.repeat = v])
setReminder(v) == setField([newEvent EXCEPT !.reminder = v])

pickAvailability(i) ==
    /\ i \in 1..Len(availabilities)
    /\ setField([newEvent EXCEPT !.time = availabilities[i]])

handleEdit(event) ==
    /\ mounted
    /\ editEventId' = event.id
    /\ showForm' = TRUE
    /\ newEvent' = event
    /\ conflicts' = <<>>
    /\ lastOp' = "ui"
    /\ UNCHANGED <<events, showDeleteConfirm, eventToDelete, reminders, clock,
                   timers, mounted, addedCalls>>
    /\ keptAvailabilities' =
          keptAfterRender(generateAvailabilities(event.date, newEvent, events),
                          newEvent')

handleDelete(event) ==
    /\ mounted
    /\ eventToDelete' = <<event>>
    /\ showDeleteConfirm' = TRUE
    /\ lastOp' = "ui"
    /\ UNCHANGED <<events, newEvent, conflicts, showForm, editEventId,
                   reminders, clock, mounted, addedCalls>>
    /\ rendered(FALSE)

\* the filter keeping what it should remove
removeById_inverted(list, id) ==
    LET keep(e) == e.id = id IN SelectSeq(list, keep)

\* prev.filter(e => e.id !== eventToDelete.id)
removeById(list, id) == exceptId(list, id)

confirmDelete ==
    /\ mounted /\ showDeleteConfirm /\ eventToDelete # <<>>
    /\ events' = removeById(events, eventToDelete[1].id)
    /\ showDeleteConfirm' = FALSE
    /\ eventToDelete' = <<>>
    /\ IF editEventId = eventToDelete[1].id
       THEN showForm' = FALSE /\ editEventId' = NoId
       ELSE UNCHANGED <<showForm, editEventId>>
    /\ lastOp' = "confirmDelete"
    /\ UNCHANGED <<newEvent, conflicts, reminders, clock, mounted, addedCalls>>
    /\ rendered(TRUE)

cancelDelete ==
    /\ mounted /\ showDeleteConfirm
    /\ showDeleteConfirm' = FALSE
    /\ eventToDelete' = <<>>
    /\ lastOp' = "ui"
    /\ UNCHANGED <<events, newEvent, conflicts, showForm, editEventId,
                   reminders, clock, mounted, addedCalls>>
    /\ rendered(FALSE)

\* the submit button of the form
handleAdd ==
    /\ mounted /\ showForm
    /\ lastOp' = "handleAdd"
    /\ UNCHANGED <<showDeleteConfirm, eventToDelete, reminders, clock, mounted>>
    /\ LET outcome == submitOutcome(newEvent, events, editEventId)
       IN  CASE outcome = "invalid" ->
                  /\ UNCHANGED <<events, newEvent, conflicts, showForm,
                                 editEventId, addedCalls>>
                  /\ rendered(FALSE)
             [] outcome = "conflict" ->
                  /\ conflicts' = submitErrs(newEvent, events, editEventId)
                  /\ UNCHANGED <<events, newEvent, showForm, editEventId,
                                 addedCalls>>
                  /\ rendered(FALSE)
             [] OTHER ->
                  /\ events' = committedStore(events, newEvent, editEventId, clock)
                  /\ editEventId' = NoId
                  /\ addedCalls' = IF isEditMode(editEventId) THEN addedCalls
                                   ELSE Append(addedCalls, toAdd(newEvent, clock))
                  /\ showForm' = FALSE
                  /\ newEvent' = clearedDraft(newEvent)
                  /\ conflicts' = <<>>
                  /\ rendered(TRUE)

\* time passes
advance(ms) ==
    /\ clock' = clock + ms
    /\ lastOp' = "advance"
    /\ UNCHANGED <<events, newEvent, conflicts, keptAvailabilities, showForm,
                   editEventId, showDeleteConfirm, eventToDelete, reminders,
                   timers, mounted, addedCalls>>

-----------------------------------------------------------------------------
(* The reminder interval *)

remindAt(event) ==
    dayjs_tz(event.date, event.time, event.timezone) - event.reminder

\* the test of one event inside the interval callback
dueReminder(event, rems, nowMs) ==
    /\ event.reminder # 0
    /\ isAfterMs(nowMs, remindAt(event))
    /\ isBeforeMs(nowMs, dayjs_tz(event.date, event.time, event.timezone))
    /\ ~ \E i \in 1..Len(rems) :
            /\ rems[i].id = event.id
            /\ rems[i].message = formatISO(remindAt(event), event.timezone)

notification(event) ==
    [id |-> event.id,
     message |-> formatISO(remindAt(event), event.timezone),
     event |-> event]

\* what one run of the interval callback appends, in store order; rems is
\* the notification list of the render that set the interval
emitted(list, rems, nowMs) ==
    LET due(e) == dueReminder(e, rems, nowMs)
        hits == SelectSeq(list, due)
    IN  [i \in 1..Len(hits) |-> notification(hits[i])]

\* one run of the callback of an active interval; a run that emits changes
\* the notification list, so the effect clears and sets the interval again
tick ==
    /\ \E t \in timers :
          /\ clock >= t + IntervalMs
          /\ timers' = IF emitted(events, reminders, clock) # <<>>
                       THEN setInterval(clearInterval(timers), clock)
                       ELSE (timers \ {t}) \cup {clock}
    /\ reminders' = reminders \o emitted(events, reminders, clock)
    /\ lastOp' = "tick"
    /\ UNCHANGED <<events, newEvent, conflicts, keptAvailabilities, showForm,
                   editEventId, showDeleteConfirm, eventToDelete, clock,
                   mounted, addedCalls>>

withoutReminder_byIdOnly(rems, id, message) ==
    LET keep(r) == r.id # id
    IN  SelectSeq(rems, keep)

\* prev.filter(r => !(r.id === id && r.message === message))
withoutReminder(rems, id, message) ==
    LET keep(r) == ~(r.id = id /\ r.message = message)
    IN  SelectSeq(rems, keep)

dismissReminder(id, message) ==
    /\ mounted
    /\ reminders' = withoutReminder(reminders, id, message)
    /\ lastOp' = "dismissReminder"
    /\ UNCHANGED <<events, newEvent, conflicts, showForm, editEventId,
                   showDeleteConfirm, eventToDelete, clock, mounted,
                   addedCalls>>
    /\ rendered(TRUE)

\* the cleanup of the reminder effect at unmount: clearInterval
unmount ==
    /\ mounted
    /\ mounted' = FALSE
    /\ timers' = clearInterval(timers)
    /\ lastOp' = "unmount"
    /\ UNCHANGED <<events, newEvent, conflicts, keptAvailabilities, showForm,
                   editEventId, showDeleteConfirm, eventToDelete, reminders,
                   clock, addedCalls>>

-----------------------------------------------------------------------------
(* Specification Spec: the form, validation, conflicts and edits *)

Titles == {"", "A"}
DateInputs == {<<>>, Date1}
TimeInputs == {<<>>, <<11, 30>>}
EditRepeats == {"none", "daily"}

fnIdle == UNCHANGED <<fnArgs, fnRet>>

\* the store grows to MaxEvents events at most
grows == Len(events') > Len(events) => Len(events') <= MaxEvents

ClockEnd == ClockStart + MaxClockAdvance

Next ==
    \/ openForm /\ fnIdle
    \/ closeForm /\ fnIdle
    \/ cancelForm /\ fnIdle
    \/ \E v \in Titles : setTitle(v) /\ fnIdle
    \/ \E v \in DateInputs : setDate(v) /\ fnIdle
    \/ \E v \in TimeInputs : setTime(v) /\ fnIdle
    \/ \E v \in EditRepeats : setRepeat(v) /\ fnIdle
    \/ \E i \in 1..Len(events) : i <= MaxTarget /\ handleEdit(events[i]) /\ fnIdle
    \/ handleAdd /\ grows /\ fnIdle
    \/ clock = ClockStart /\ advance(MaxClockAdvance) /\ fnIdle

Spec == Init /\ [][Next]_vars

-----------------------------------------------------------------------------
(* Specification SpecSeries: adds, recurrence series and ids *)

SeriesTimes == {<<11, 30>>}
Repeats == {"none", "daily", "weekly", "monthly"}

NextSeries ==
    \/ openForm /\ fnIdle
    \/ setTitle("A") /\ fnIdle
    \/ \E v \in SeriesTimes : setTime(v) /\ fnIdle
    \/ \E v \in Repeats : setRepeat(v) /\ fnIdle
    \/ handleAdd /\ fnIdle
    \/ clock < ClockEnd /\ advance(1) /\ fnIdle

SpecSeries == Init /\ [][NextSeries]_vars

-----------------------------------------------------------------------------
(* Specification SpecReminders: the interval, dismissal and deletion *)

ReminderSteps == {5 * MsPerMinute}
ReminderClockEnd == ClockStart + MaxReminderSteps * 5 * MsPerMinute

NextReminders ==
    \/ tick /\ fnIdle
    \/ \E i \in 1..Len(reminders) :
          dismissReminder(reminders[i].id, reminders[i].message) /\ fnIdle
    \/ \E i \in 1..Len(events) : handleDelete(events[i]) /\ fnIdle
    \/ confirmDelete /\ fnIdle
    \/ cancelDelete /\ fnIdle
    \/ unmount /\ fnIdle
    \/ \E ms \in ReminderSteps :
          clock + ms <= ReminderClockEnd /\ advance(ms) /\ fnIdle

SpecReminders == Init /\ [][NextReminders]_vars

-----------------------------------------------------------------------------
(* Specification SpecConflicts: checkConflicts applied to a candidate and a
   list *)

idle ==
    /\ events = <<>>
    /\ clock = ClockStart
    /\ newEvent = initialDraft(clock)
    /\ conflicts = <<>>
    /\ keptAvailabilities = <<>>
    /\ showForm = FALSE
    /\ editEventId = NoId
    /\ showDeleteConfirm = FALSE
    /\ eventToDelete = <<>>
    /\ reminders = <<>>
    /\ timers = {clock}
    /\ mounted = TRUE
    /\ addedCalls = <<>>
    /\ lastOp = "init"

event(id, title, date, time, duration, buffer, timezone) ==
    [id |-> id, title |-> title, date |-> date, time |-> time,
     duration |-> duration, timezone |-> timezone, buffer |-> buffer,
     repeat |-> "none", reminder |-> 0, status |-> "confirmed"]

\* E1 of the scenario, a neighbour without buffer, and one in another zone
Stored ==
    { event(1, "E1", Date1, <<10, 0>>, 60, 15, "UTC"),
      event(2, "E2", Date1, <<12, 0>>, 60, 0, "UTC"),
      event(3, "E3", Date1, <<18, 0>>, 30, 15, "Asia/Kolkata") }

Candidates ==
    { event(id, "C", date, time, duration, buffer, timezone) :
        id \in {NoId, 1}, date \in {Date1, Date2},
        time \in {<<9, 0>>, <<11, 0>>, <<11, 15>>, <<13, 0>>},
        duration \in {60}, buffer \in {0, 15}, timezone \in Zones }

Lists == UNION { [1..n -> Stored] : n \in 0..MaxList }

InitConflicts ==
    /\ idle
    /\ fnArgs \in [fn : {"checkConflicts"}, testEvent : Candidates, list : Lists]
    /\ fnRet = NoCall

callCheckConflicts ==
    /\ fnArgs.fn = "checkConflicts" /\ fnRet = NoCall
    /\ fnRet' = [fn |-> "checkConflicts",
                 value |-> checkConflicts(fnArgs.testEvent, fnArgs.list)]
    /\ UNCHANGED <<fnArgs, appVars>>

NextConflicts == callCheckConflicts

SpecConflicts == InitConflicts /\ [][NextConflicts]_vars

-----------------------------------------------------------------------------
(* Specification SpecSlots: generateAvailabilities applied to a date, a draft
   and a store *)

SlotDrafts ==
    { [initialDraft(ClockStart) EXCEPT !.duration = d, !.buffer = b,
                                       !.timezone = z] :
        d \in {30, 60, 90, 480, 510}, b \in {0, 15}, z \in Zones }

\* stored events around the work window of Date1
Busy ==
    { event(1, "B1", Date1, <<9, 0>>, 60, 15, "UTC"),
      event(2, "B2", Date1, <<11, 0>>, 45, 0, "UTC"),
      event(3, "B3", Date1, <<14, 30>>, 30, 15, "Asia/Kolkata"),
      event(4, "B4", Date1, <<9, 0>>, 480, 15, "UTC") }

BusyLists == UNION { [1..n -> Busy] : n \in 0..MaxList }

InitSlots ==
    /\ idle
    /\ fnArgs \in [fn : {"generateAvailabilities"}, date : {Date1, Date2},
                   draft : SlotDrafts, list : BusyLists]
    /\ fnRet = NoCall

callGenerateAvailabilities ==
    /\ fnArgs.fn = "generateAvailabilities" /\ fnRet = NoCall
    /\ fnRet' = [fn |-> "generateAvailabilities",
                 value |-> generateAvailabilities(fnArgs.date, fnArgs.draft,
                                                  fnArgs.list)]
    /\ UNCHANGED <<fnArgs, appVars>>

NextSlots == callGenerateAvailabilities

SpecSlots == InitSlots /\ [][NextSlots]_vars

-----------------------------------------------------------------------------
(* Specification SpecTimer: the interval against changes of the store.  Time
   passes in quarter minutes and never beyond the instant at which an active
   interval elapses: there the callback runs, unless a handler clears the
   interval first. *)

TimerStep == 15 * 1000
TimerClockEnd == ClockStart + MaxQuarterMinutes * TimerStep

passes(ms) ==
    /\ clock + ms <= TimerClockEnd
    /\ \A t \in timers : clock + ms <= t + IntervalMs
    /\ advance(ms)

NextTimer ==
    \/ tick /\ fnIdle
    \/ passes(TimerStep) /\ fnIdle
    \/ \E i \in 1..Len(events) :
          events[i].reminder = 0 /\ handleEdit(events[i]) /\ fnIdle
    \/ handleAdd /\ fnIdle

SpecTimer == Init /\ [][NextTimer]_vars

-----------------------------------------------------------------------------
(* Specification SpecNotify: notifications across adds, edits, deletions and
   dismissals *)

NotifyReminders == {10, 30}
NotifyStep == 7 * MsPerMinute

\* the store grows to MaxEvents events at most, MaxAdds times at most
growsNotify == Len(events') > Len(events) => grows /\ Len(addedCalls') <= MaxAdds
NotifyClockEnd == ClockStart + MaxNotifySteps * NotifyStep

\* time passes while no form and no dialog is open
idleFor(ms) ==
    /\ clock + ms <= NotifyClockEnd
    /\ ~showForm
    /\ ~showDeleteConfirm
    /\ advance(ms)

NextNotify ==
    \/ tick /\ fnIdle
    \/ \E i \in 1..Len(reminders) :
          dismissReminder(reminders[i].id, reminders[i].message) /\ fnIdle
    \/ \E i \in 1..Len(events) : handleDelete(events[i]) /\ fnIdle
    \/ confirmDelete /\ fnIdle
    \/ openForm /\ fnIdle
    \/ ~isEditMode(editEventId) /\ setTitle("A") /\ fnIdle
    \/ \E v \in NotifyReminders :
          isEditMode(editEventId) /\ setReminder(v) /\ fnIdle
    \/ \E i \in 1..Len(events) : handleEdit(events[i]) /\ fnIdle
    \/ handleAdd /\ growsNotify /\ fnIdle
    \/ idleFor(NotifyStep) /\ fnIdle

\* the store of one event whose reminder falls after the mount
InitNotify == Init /\ events = <<Seed1>>

SpecNotify == InitNotify /\ [][NextNotify]_vars

-----------------------------------------------------------------------------
(* Specification SpecTwins: adds made in the same millisecond, then an edit
   and the interval *)

TwinTimes == {<<10, 0>>, <<11, 30>>}
TwinClockEnd == ClockStart + MaxTwinSteps * 5 * MsPerMinute

\* the store grows to MaxTwinEvents events at most
growsTwins == Len(events') > Len(events) => Len(events') <= MaxTwinEvents

NextTwins ==
    \/ openForm /\ fnIdle
    \/ setTitle("A") /\ fnIdle
    \/ \E v \in TwinTimes : setTime(v) /\ fnIdle
    \/ setReminder(10) /\ fnIdle
    \/ \E i \in 1..Len(events) : i <= MaxTarget /\ handleEdit(events[i]) /\ fnIdle
    \/ handleAdd /\ growsTwins /\ fnIdle
    \/ \E ms \in ReminderSteps :
          clock + ms <= TwinClockEnd /\ advance(ms) /\ fnIdle
    \/ tick /\ fnIdle

SpecTwins == Init /\ [][NextTwins]_vars

(* Specification SpecDismiss: the interval and dismissals, the last
   dismissed pair kept in fnArgs *)

DismissStep == 2 * MsPerMinute
DismissClockEnd == ClockStart + MaxDismissSteps * DismissStep

\* a click on the dismiss button of one notification, recorded
dismissed(r) ==
    /\ dismissReminder(r.id, r.message)
    /\ fnArgs' = [fn |-> "dismissReminder", id |-> r.id, message |-> r.message]
    /\ UNCHANGED fnRet

NextDismiss ==
    \/ tick /\ fnIdle
    \/ \E i \in 1..Len(reminders) : dismissed(reminders[i])
    \/ clock + DismissStep <= DismissClockEnd /\ advance(DismissStep) /\ fnIdle

SpecDismiss == Init /\ [][NextDismiss]_vars

-----------------------------------------------------------------------------
(* Specification SpecPick: offered times clicked and submitted, in add and
   in edit mode *)

\* the offered times clicked: the first and the second
PickSlots == {1, 2}

NextPick ==
    \/ openForm /\ fnIdle
    \/ setTitle("A") /\ fnIdle
    \/ \E i \in PickSlots : pickAvailability(i) /\ fnIdle
    \/ \E i \in 1..Len(events) :
          events[i].id = Seed1.id /\ handleEdit(events[i]) /\ fnIdle
    \/ handleAdd /\ grows /\ fnIdle

\* no stored event, or one
InitPick == Init /\ Len(events) <= 1

SpecPick == InitPick /\ [][NextPick]_vars

-----------------------------------------------------------------------------
(* Specification SpecSubmit: submits in add and in edit mode against one or
   two stored events *)

SubmitTimes == {<<11, 0>>}

\* the store grows to MaxSubmitEvents events at most
growsSubmit == Len(events') > Len(events) => Len(events') <= MaxSubmitEvents

NextSubmit ==
    \/ openForm /\ fnIdle
    \/ setTitle("A") /\ fnIdle
    \/ \E v \in SubmitTimes : setTime(v) /\ fnIdle
    \/ \E i \in 1..Len(events) : i <= MaxTarget /\ handleEdit(events[i]) /\ fnIdle
    \/ handleAdd /\ growsSubmit /\ fnIdle

SpecSubmit == Init /\ [][NextSubmit]_vars

-----------------------------------------------------------------------------
(* Specification SpecRecur: single events and daily series on two dates *)

RecurDates == {Date1, Date2}
RecurTimes == {<<11, 0>>}
RecurRepeats == {"none", "daily", "weekly"}

\* the store grows to MaxRecurEvents events at most
growsRecur == Len(events') > Len(events) => Len(events') <= MaxRecurEvents

NextRecur ==
    \/ openForm /\ fnIdle
    \/ setTitle("A") /\ fnIdle
    \/ \E v \in RecurDates : setDate(v) /\ fnIdle
    \/ \E v \in RecurTimes : setTime(v) /\ fnIdle
    \/ \E v \in RecurRepeats : setRepeat(v) /\ fnIdle
    \/ handleAdd /\ growsRecur /\ fnIdle

SpecRecur == Init /\ [][NextRecur]_vars

-----------------------------------------------------------------------------
(* Properties of checkConflicts, checked under SpecConflicts *)

\* C1: checkConflicts(candidate, list) reports a stored event other than the
\* candidate itself if and only if the half-open windows
\* [start, start + duration + buffer) of the candidate and of the event
\* intersect, each window taken with the event's own buffer; with E1 at
\* 10:00, duration 60, buffer 15, a candidate at 11:00 conflicts and a
\* candidate at 11:15 does not.
C1_ReportsIffWindowsIntersect ==
    fnRet.fn = "checkConflicts" =>
        LET c == fnArgs.testEvent
            startOf(e) == dayjs_tz(e.date, e.time, e.timezone)
            endOf(e) == startOf(e) + e.duration + e.buffer
            reported(e) == /\ e.id # c.id
                           /\ startOf(c) < endOf(e)
                           /\ endOf(c) > startOf(e)
            expected == SelectSeq(fnArgs.list, reported)
        IN  fnRet.value =
                [i \in 1..Len(expected) |-> [conflictWith |-> expected[i].title]]

-----------------------------------------------------------------------------
(* Properties of handleAdd, checked under Spec *)

\* C2: when handleAdd detects at least one conflict, in add or in edit mode,
\* the store is unchanged, the new-event callback is not invoked and the
\* conflict list becomes the detected conflicts.
C2_ConflictLeavesStore ==
    [][ LET detected == checkConflicts(newEvent, exceptId(events, editEventId))
        IN  ( /\ lastOp' = "handleAdd"
              /\ newEvent.title # "" /\ newEvent.date # <<>>
              /\ newEvent.time # <<>>
              /\ detected # <<>> )
            => /\ events' = events
               /\ addedCalls' = addedCalls
               /\ conflicts' = detected ]_vars

\* a rejected edit: the form is still open on the edited event, with the
\* conflicts shown
C2_Witness ==
    /\ lastOp = "handleAdd"
    /\ conflicts # <<>>
    /\ editEventId # NoId
    /\ showForm
    /\ addedCalls = <<>>

\* C3: handleAdd with an empty title, date or time changes nothing: the store,
\* the conflict list, the edit mode, the draft, the form and the callbacks
\* stay as they were, even when the draft would also conflict.
C3_MissingFieldChangesNothing ==
    [][ ( /\ lastOp' = "handleAdd"
          /\ \/ newEvent.title = ""
             \/ newEvent.date = <<>>
             \/ newEvent.time = <<>> )
        => UNCHANGED <<events, conflicts, editEventId, newEvent, showForm,
                       addedCalls>> ]_vars

\* a submit without a title of a draft that overlaps a stored event
C3_Witness ==
    /\ lastOp = "handleAdd"
    /\ showForm
    /\ newEvent.title = ""
    /\ newEvent.date # <<>> /\ newEvent.time # <<>>
    /\ checkConflicts(newEvent, events) # <<>>
    /\ conflicts = <<>>

\* C6: a successful edit replaces the stored event with the edited id by the
\* draft carrying that id, at the same position; the other events, the length
\* of the store and the callbacks are unchanged and no occurrence is added.
\* The edited event is left out of the conflict check, so only the other
\* events can reject the edit.
C6_EditReplacesInPlace ==
    [][ ( /\ lastOp' = "handleAdd"
          /\ editEventId # NoId
          /\ newEvent.title # "" /\ newEvent.date # <<>>
          /\ newEvent.time # <<>>
          /\ checkConflicts([newEvent EXCEPT !.id = NoId],
                            exceptId(events, editEventId)) = <<>> )
        => /\ Len(events') = Len(events)
           /\ \A i \in 1..Len(events) :
                 events'[i] = IF events[i].id = editEventId
                              THEN [newEvent EXCEPT !.id = editEventId]
                              ELSE events[i]
           /\ addedCalls' = addedCalls ]_vars

\* the first seed edited to a new title and a daily repeat at its own date
\* and time, next to the second seed
C6_Witness ==
    /\ lastOp = "handleAdd"
    /\ editEventId = NoId
    /\ Len(events) = 2
    /\ events[1] = [Seed1 EXCEPT !.title = "A", !.repeat = "daily"]
    /\ events[2] = Seed2
    /\ addedCalls = <<>>

-----------------------------------------------------------------------------
(* Properties of adds, checked under SpecSeries *)

\* C4: a successful add outside edit mode appends, in one update, exactly one
\* event when repeat is none and exactly six (the base and five occurrences,
\* in order) when repeat is daily, weekly or monthly; the events stored before
\* are unchanged and the callback is invoked once, with the base event.
C4_AddAppendsOneOrSix ==
    [][ ( /\ lastOp' = "handleAdd"
          /\ editEventId = NoId
          /\ newEvent.title # "" /\ newEvent.date # <<>>
          /\ newEvent.time # <<>>
          /\ checkConflicts(newEvent, events) = <<>> )
        => LET n == Len(events)
               base == [newEvent EXCEPT !.id = clock, !.status = "confirmed"]
               added == IF newEvent.repeat = "none" THEN 1 ELSE 6
           IN  /\ Len(events') = n + added
               /\ SubSeq(events', 1, n) = events
               /\ events'[n + 1] = base
               /\ \A i \in 1..(added - 1) :
                     /\ events'[n + 1 + i].id = clock + i
                     /\ events'[n + 1 + i].date # base.date
                     /\ [events'[n + 1 + i] EXCEPT !.id = base.id,
                                                   !.date = base.date] = base
               /\ \A i \in 1..(added - 2) :
                     DayNumber(events'[n + 1 + i].date)
                         < DayNumber(events'[n + 2 + i].date)
               /\ addedCalls' = Append(addedCalls, base) ]_vars

\* a weekly series added behind a stored event
C4_Witness ==
    /\ lastOp = "handleAdd"
    /\ Len(events) = 7
    /\ events[1] = Seed1
    /\ events[2].repeat = "weekly"
    /\ events[7].date = <<2024, 2, 5>>
    /\ Len(addedCalls) = 1
    /\ addedCalls[1] = events[2]

\* C5: starting from a store with pairwise distinct ids, every sequence of
\* successful adds, recurring or not, whatever the clock values, leaves the
\* ids of the stored events pairwise distinct.
C5_IdsPairwiseDistinct ==
    \A i, j \in 1..Len(events) : i # j => events[i].id # events[j].id

-----------------------------------------------------------------------------
(* Properties of deletion and of the reminder interval, checked under
   SpecReminders *)

\* C7: confirmDelete removes exactly the events with the id of the event
\* chosen for deletion, keeps the others unchanged and in order, and leaves
\* the notification list unchanged.
C7_DeleteRemovesOnlyTarget ==
    [][ lastOp' = "confirmDelete"
        => LET stays(e) == e.id # eventToDelete[1].id
           IN  /\ events' = SelectSeq(events, stays)
               /\ Len(events') < Len(events)
               /\ reminders' = reminders ]_vars

\* a reminder that outlives its deleted event
C7_Witness ==
    /\ lastOp = "confirmDelete"
    /\ reminders # <<>>
    /\ \A i \in 1..Len(events) : events[i].id # reminders[1].id
    /\ events # <<>>

-----------------------------------------------------------------------------
(* Properties of generateAvailabilities, checked under SpecSlots *)

\* C8: generateAvailabilities returns at most 6 times, strictly increasing,
\* each 09:00 + k * 30 minutes for a natural k, with start >= 09:00 and
\* start + duration <= 17:00 in the draft's zone.
C8_SlotsOnGridInsideWindow ==
    fnRet.fn = "generateAvailabilities" =>
        LET r == fnRet.value
            minute(t) == t[1] * 60 + t[2]
        IN  /\ Len(r) <= 6
            /\ \A i \in 1..(Len(r) - 1) : minute(r[i]) < minute(r[i + 1])
            /\ \A i \in 1..Len(r) :
                  /\ minute(r[i]) >= 9 * 60
                  /\ (minute(r[i]) - 9 * 60) % 30 = 0
                  /\ minute(r[i]) + fnArgs.draft.duration <= 17 * 60

\* six slots of 90 minutes, the first one after a stored event
C8_Witness ==
    /\ fnRet.fn = "generateAvailabilities"
    /\ Len(fnRet.value) = 6
    /\ fnArgs.list # <<>>
    /\ fnRet.value[1] # <<9, 0>>
    /\ fnArgs.draft.duration = 90

\* C9: the times returned are exactly the first (at most 6) grid times
\* t = 09:00 + k * 30 with t + duration <= 17:00 whose candidate, with the
\* draft's duration and buffer, has no conflict; with one stored event
\* occupying 09:00-10:15 and a draft of duration 60 and buffer 15 the first
\* time returned is 10:30.
C9_FirstFreeGridTimes ==
    fnRet.fn = "generateAvailabilities" =>
        LET d == fnArgs.draft
            open == dayjs_tz(fnArgs.date, <<9, 0>>, d.timezone)
            close == dayjs_tz(fnArgs.date, <<17, 0>>, d.timezone)
            at(k) == open + 30 * k
            candidate(k) ==
                [id |-> NoId, title |-> "", date |-> fnArgs.date,
                 time |-> formatHHmm(at(k), d.timezone),
                 duration |-> d.duration, buffer |-> d.buffer,
                 timezone |-> d.timezone]
            good == { k \in 0..16 :
                        /\ at(k) + d.duration <= close
                        /\ checkConflicts(candidate(k), fnArgs.list) = <<>> }
            n == IF Cardinality(good) < 6 THEN Cardinality(good) ELSE 6
            kth(i) == CHOOSE k \in good :
                          Cardinality({ j \in good : j < k }) = i - 1
        IN  /\ fnRet.value = [i \in 1..n |-> formatHHmm(at(kth(i)), d.timezone)]
            /\ ( /\ fnArgs.list = <<event(1, "B1", Date1, <<9, 0>>, 60, 15, "UTC")>>
                 /\ fnArgs.date = Date1
                 /\ d.duration = 60 /\ d.buffer = 15 /\ d.timezone = "UTC" )
               => fnRet.value[1] = <<10, 30>>

\* the scenario: 09:00, 09:30 and 10:00 skipped, 10:30 first
C9_Witness ==
    /\ fnRet.fn = "generateAvailabilities"
    /\ fnArgs.list = <<event(1, "B1", Date1, <<9, 0>>, 60, 15, "UTC")>>
    /\ fnArgs.date = Date1
    /\ fnArgs.draft.duration = 60
    /\ fnArgs.draft.buffer = 15
    /\ fnArgs.draft.timezone = "UTC"
    /\ fnRet.value = <<<<10, 30>>, <<11, 0>>, <<11, 30>>, <<12, 0>>,
                       <<12, 30>>, <<13, 0>>>>

-----------------------------------------------------------------------------
(* Further properties of checkConflicts, checked under SpecConflicts *)

\* C13: for events A and B with distinct ids, if the windows
\* [start, start + duration + buffer) of A and B overlap, then
\* checkConflicts(A, <<B>>) reports B's title and checkConflicts(B, <<A>>)
\* reports A's title; and the one is non-empty exactly when the other is,
\* also when a buffer is 0.
C13_ConflictIsSymmetric ==
    ( /\ fnRet.fn = "checkConflicts"
      /\ Len(fnArgs.list) = 1
      /\ fnArgs.list[1].id # fnArgs.testEvent.id )
    => LET a == fnArgs.testEvent
           b == fnArgs.list[1]
           startOf(e) == dayjs_tz(e.date, e.time, e.timezone)
           endOf(e) == startOf(e) + e.duration + e.buffer
           overlap == startOf(a) < endOf(b) /\ startOf(b) < endOf(a)
           forth == fnRet.value
           back == checkConflicts(b, <<a>>)
       IN  /\ overlap => /\ forth = <<[conflictWith |-> b.title]>>
                         /\ back = <<[conflictWith |-> a.title]>>
           /\ (forth # <<>>) <=> (back # <<>>)

\* C18: checkConflicts takes each stored event's window with that event's own
\* buffer: a stored event with buffer 0 has the window
\* [start, start + duration), so it is reported exactly when the candidate's
\* window intersects that one, and a candidate starting at start + duration
\* is not in conflict with it.
C18_ZeroBufferKeepsOwnWindow ==
    fnRet.fn = "checkConflicts" =>
        LET c == fnArgs.testEvent
            startOf(e) == dayjs_tz(e.date, e.time, e.timezone)
            cEnd == startOf(c) + c.duration + c.buffer
        IN  \A i \in 1..Len(fnArgs.list) :
                LET e == fnArgs.list[i]
                    named == \E k \in 1..Len(fnRet.value) :
                                fnRet.value[k].conflictWith = e.title
                IN  (e.buffer = 0 /\ e.id # c.id)
                    => ( named <=> /\ startOf(c) < startOf(e) + e.duration
                                   /\ cEnd > startOf(e) )

-----------------------------------------------------------------------------
(* Further properties of adds, checked under SpecSeries *)

\* C14: an add with repeat weekly produces exactly 5 occurrences, dated the
\* base date plus 7 * i days for i = 1..5; each has the base's time, duration,
\* buffer, timezone, title, reminder and every other field except date and
\* id; base and occurrences have 6 pairwise distinct ids.
C14_WeeklyOccurrences ==
    [][ ( /\ lastOp' = "handleAdd"
          /\ editEventId = NoId
          /\ newEvent.repeat = "weekly"
          /\ newEvent.title # "" /\ newEvent.date # <<>>
          /\ newEvent.time # <<>>
          /\ checkConflicts(newEvent, events) = <<>> )
        => LET n == Len(events)
               base == events'[n + 1]
           IN  /\ Len(events') = n + 6
               /\ base.date = newEvent.date
               /\ \A i \in 1..5 :
                     LET o == events'[n + 1 + i]
                     IN  /\ DayNumber(o.date) = DayNumber(base.date) + 7 * i
                         /\ o.time = base.time
                         /\ o.duration = base.duration
                         /\ o.buffer = base.buffer
                         /\ o.timezone = base.timezone
                         /\ o.title = base.title
                         /\ o.reminder = base.reminder
                         /\ [o EXCEPT !.date = base.date, !.id = base.id] = base
               /\ \A i, j \in 1..6 :
                     i # j => events'[n + i].id # events'[n + j].id ]_vars

\* a weekly series added to an empty store on Monday 2024-01-01
C14_Witness ==
    /\ lastOp = "handleAdd"
    /\ Len(events) = 6
    /\ events[1].repeat = "weekly"
    /\ events[1].date = <<2024, 1, 1>>
    /\ [i \in 2..6 |-> events[i].date] =
           [i \in 2..6 |-> <<<<2024, 1, 8>>, <<2024, 1, 15>>, <<2024, 1, 22>>,
                             <<2024, 1, 29>>, <<2024, 2, 5>>>>[i - 1]]

-----------------------------------------------------------------------------
(* Properties of the interval timer, checked under SpecReminders *)

\* C17: at every moment at most one reminder interval is active: a change of
\* the store or of the notification list clears the previous interval before
\* the next one is set; after unmount no interval is active and no tick runs.
C17_AtMostOneInterval ==
    /\ Cardinality(timers) <= 1
    /\ mounted => Cardinality(timers) = 1
    /\ ~mounted => timers = {} /\ lastOp # "tick"

\* the interval set again by an emitting tick and by a deletion, then cleared
\* by unmount
C17_Witness ==
    /\ ~mounted
    /\ timers = {}
    /\ reminders # <<>>
    /\ events = <<Seed2>>
    /\ clock > ClockStart + 15 * MsPerMinute

-----------------------------------------------------------------------------
(* Properties of the interval against changes of the store, checked under
   SpecTimer *)

\* C16: for an event with reminder > 0 that stays unchanged in the store while
\* now runs from remindAt to eventStart, a notification for (event id,
\* remindAt) is emitted before eventStart, whatever edits of other events
\* happen in between: once now has reached eventStart the notification has
\* been emitted.
C16_NotifiedBeforeStart ==
    \A i \in 1..Len(events) :
        LET e == events[i]
            startMs == dayjs_tz(e.date, e.time, e.timezone) * MsPerMinute
        IN  (e.reminder > 0 /\ clock >= startMs)
            => \E k \in 1..Len(reminders) :
                  /\ reminders[k].id = e.id
                  /\ reminders[k].message = formatISO(remindAt(e), e.timezone)

(* C12: a notification stays in the list, unchanged and in place, through
   every step that is not a dismissal (tick, add, edit, delete, input, time);
   a dismissal is made with the pair (id, message) of one listed notification
   and removes exactly the entries with that pair, message being the
   formatted remindAt; the other entries stay, in order *)
C12_StaysUntilDismissed ==
    [][ IF lastOp' = "dismissReminder"
        THEN \E i \in 1..Len(reminders) :
                LET other(r) == r.id # reminders[i].id
                                \/ r.message # reminders[i].message
                IN  reminders' = SelectSeq(reminders, other)
        ELSE /\ Len(reminders') >= Len(reminders)
             /\ SubSeq(reminders', 1, Len(reminders)) = reminders ]_vars

\* one of two notifications of event 1 was dismissed; the one that stays is
\* for a remindAt the event no longer has
C12_Witness ==
    /\ lastOp = "dismissReminder"
    /\ Len(reminders) = 1
    /\ Len(events) >= 1
    /\ events[1].id = reminders[1].id
    /\ events[1].reminder > 0
    /\ reminders[1].message
          # formatISO(remindAt(events[1]), events[1].timezone)

(* C11: the notification list never holds two entries with the same pair of
   event id and remindAt (the message is remindAt formatted), and the
   callback run again at the same instant on the list its first run left
   emits nothing *)
C11_NoDuplicateNotifications ==
    /\ \A i, j \in 1..Len(reminders) :
          (reminders[i].id = reminders[j].id
           /\ reminders[i].message = reminders[j].message) => i = j
    /\ emitted(events, reminders \o emitted(events, reminders, clock), clock)
          = <<>>

(* C19: a submit with the required fields filled lists every stored event
   that conflicts with the draft, once each and in store order, leaving out
   only the events whose id is the draft's id or editEventId (conflicting as
   the code tests it: the draft's window against the stored window, whose
   buffer counts as 15 when it is 0); when the list is not empty the store,
   the draft and the form stay as they were, and the submit commits exactly
   when the list is empty *)
C19_AllConflictsInStoreOrder ==
    [][ ( /\ lastOp' = "handleAdd"
          /\ newEvent.title # "" /\ newEvent.date # <<>>
          /\ newEvent.time # <<>> )
        => LET cStart == dayjs_tz(newEvent.date, newEvent.time,
                                  newEvent.timezone)
               cEnd == cStart + newEvent.duration + newEvent.buffer
               sStart(e) == dayjs_tz(e.date, e.time, e.timezone)
               sEnd(e) == sStart(e) + e.duration
                          + (IF e.buffer = 0 THEN DefaultBuffer ELSE e.buffer)
               hitIdx == {i \in 1..Len(events) :
                             /\ events[i].id # newEvent.id
                             /\ events[i].id # editEventId
                             /\ cStart < sEnd(events[i])
                             /\ sStart(events[i]) < cEnd}
           IN  IF hitIdx = {}
               THEN /\ showForm' = FALSE
                    /\ conflicts' = <<>>
                    /\ editEventId' = NoId
               ELSE /\ Len(conflicts') = Cardinality(hitIdx)
                    /\ \E f \in [1..Len(conflicts') -> hitIdx] :
                          /\ \A j, k \in 1..Len(conflicts') :
                                j < k => f[j] < f[k]
                          /\ \A k \in 1..Len(conflicts') :
                                conflicts'[k].conflictWith = events[f[k]].title
                    /\ events' = events
                    /\ newEvent' = newEvent
                    /\ showForm' = showForm
                    /\ editEventId' = editEventId ]_vars

\* an add against two stored events that both conflict: both are listed, in
\* store order
C19_Witness ==
    /\ lastOp = "handleAdd"
    /\ events = <<Seed1, Seed2>>
    /\ editEventId = NoId
    /\ conflicts = <<[conflictWith |-> Seed1.title],
                     [conflictWith |-> Seed2.title]>>

(* C20: an add of a series (repeat not 'none', required fields filled)
   appends the base and its 5 occurrences exactly when no stored event
   conflicts with the base, whatever the occurrences overlap, and otherwise
   leaves the store as it was; the store can so hold two events whose
   windows [start, start + duration + buffer) intersect *)
C20_OnlyBaseIsChecked ==
    [][ ( /\ lastOp' = "handleAdd"
          /\ ~isEditMode(editEventId)
          /\ newEvent.title # "" /\ newEvent.date # <<>>
          /\ newEvent.time # <<>>
          /\ newEvent.repeat # "none" )
        => LET cStart == dayjs_tz(newEvent.date, newEvent.time,
                                  newEvent.timezone)
               cEnd == cStart + newEvent.duration + newEvent.buffer
               sStart(e) == dayjs_tz(e.date, e.time, e.timezone)
               sEnd(e) == sStart(e) + e.duration
                          + (IF e.buffer = 0 THEN DefaultBuffer ELSE e.buffer)
               baseFree == \A i \in 1..Len(events) :
                              \/ events[i].id = newEvent.id
                              \/ cStart >= sEnd(events[i])
                              \/ sStart(events[i]) >= cEnd
           IN  IF baseFree
               THEN /\ Len(events') = Len(events) + Occurrences + 1
                    /\ SubSeq(events', 1, Len(events)) = events
                    /\ \A k \in Len(events) + 1..Len(events') :
                          /\ events'[k].time = newEvent.time
                          /\ events'[k].title = newEvent.title
                    /\ events'[Len(events) + 1].date = newEvent.date
               ELSE events' = events ]_vars

\* a daily series was committed although its second occurrence falls on a
\* stored event: two stored events have intersecting windows
C20_Witness ==
    /\ lastOp = "handleAdd"
    /\ Len(events) = Occurrences + 2
    /\ events[1].repeat = "none"
    /\ events[2].repeat = "daily"
    /\ \E j \in 2..Len(events) :
          LET a == events[1]
              b == events[j]
              aStart == dayjs_tz(a.date, a.time, a.timezone)
              bStart == dayjs_tz(b.date, b.time, b.timezone)
          IN  /\ aStart < bStart + b.duration + b.buffer
              /\ bStart < aStart + a.duration + a.buffer

(* C21: a submit outside edit mode of a draft with repeat 'none' appends
   the new event only if its window [start, start + duration + buffer)
   intersects the window of no event in the store, whatever came before, a
   committed edit included *)
C21_AddCommitsOnlyWhenFree ==
    [][ ( /\ lastOp' = "handleAdd"
          /\ ~isEditMode(editEventId)
          /\ newEvent.repeat = "none"
          /\ Len(events') = Len(events) + 1 )
        => LET n == events'[Len(events')]
               nStart == dayjs_tz(n.date, n.time, n.timezone)
               nEnd == nStart + n.duration + n.buffer
           IN  \A i \in 1..Len(events) :
                  LET e == events[i]
                      eStart == dayjs_tz(e.date, e.time, e.timezone)
                      eEnd == eStart + e.duration + e.buffer
                  IN  nStart >= eEnd \/ eStart >= nEnd ]_vars

(* C22: edit mode is active only while the form is open: whenever the form
   is closed, editEventId is null, so that the New Event button always opens
   the form in add mode *)
C22_EditModeOnlyWhileFormOpen ==
    isEditMode(editEventId) => showForm

(* C23: after a notification was dismissed, no run of the interval callback
   emits a notification with the dismissed pair of event id and remindAt
   (message) again *)
C23_DismissedStaysDismissed ==
    [][ (lastOp' = "tick" /\ fnArgs.fn = "dismissReminder")
        => \A k \in Len(reminders) + 1..Len(reminders') :
              ~(/\ reminders'[k].id = fnArgs.id
                /\ reminders'[k].message = fnArgs.message) ]_vars

(* C24: a submit of a draft with a title, whose time is one of the times
   offered for its date, finds no conflict and commits, in add mode (events
   are appended) and in edit mode (the store keeps its length, edit mode
   ends) alike *)
C24_OfferedTimeIsAccepted ==
    [][ ( /\ lastOp' = "handleAdd"
          /\ newEvent.title # "" /\ newEvent.date # <<>>
          /\ \E k \in 1..Len(availabilities) :
                availabilities[k] = newEvent.time )
        => /\ conflicts' = <<>>
           /\ showForm' = FALSE
           /\ editEventId' = NoId
           /\ IF isEditMode(editEventId)
              THEN Len(events') = Len(events)
              ELSE Len(events') > Len(events) ]_vars

\* the stored event, edited, was moved to an offered time and committed
C24_Witness ==
    /\ lastOp = "handleAdd"
    /\ ~showForm
    /\ Len(events) = 1
    /\ events[1].id = Seed1.id
    /\ events[1].time # Seed1.time
    /\ addedCalls = <<>>

(* C25: the store changes only in a submit or in a confirmed deletion: a
   run of the interval callback, a dismissal, an input, a render with its
   availability computation and the passing of time leave it as it was; a
   submit keeps the stored events in their places with their ids, and a
   deletion keeps the remaining events as they were, in order *)
C25_StoreChangesOnlyBySubmitOrDelete ==
    [][ /\ events' # events => lastOp' \in {"handleAdd", "confirmDelete"}
        /\ lastOp' = "handleAdd"
              => /\ Len(events') >= Len(events)
                 /\ \A i \in 1..Len(events) : events'[i].id = events[i].id
        /\ lastOp' = "confirmDelete"
              => /\ Len(events') <= Len(events)
                 /\ \E f \in [1..Len(events') -> 1..Len(events)] :
                       /\ \A j, k \in 1..Len(events') : j < k => f[j] < f[k]
                       /\ \A k \in 1..Len(events') : events'[k] = events[f[k]]
      ]_vars

\* the stored event was edited (it kept its id), its notification was
\* emitted and then dismissed: the store still holds the edited event
C25_Witness ==
    /\ lastOp = "dismissReminder"
    /\ reminders = <<>>
    /\ Len(events) = 1
    /\ events[1].id = Seed1.id
    /\ events[1].reminder # Seed1.reminder

=============================================================================
